---- MODULE Spec2Model ----
(***************************************************************************)
(* Khael Apartments backend: the listing store (SQLite tables apartments,  *)
(* apartment_images, apartment_videos, admin_users), the Express router of *)
(* /api/apartments and /api/admin, the authenticateAdmin gate and the      *)
(* request handlers, as a state machine.  One action is one HTTP request   *)
(* served to completion (Node runs a synchronous handler without           *)
(* interleaving); a handler that awaits is split at its await.  A visitor's *)
(* browser shows the HomePage with its filters and the ImageCarousel of a   *)
(* listing.                                                                *)
(***************************************************************************)
EXTENDS Integers, Sequences, FiniteSets, TLC

VARIABLES
    apartments,        \* rows of table apartments
    apartment_images,  \* rows of table apartment_images
    apartment_videos,  \* rows of table apartment_videos
    admin_users,       \* rows of table admin_users
    sqlite_sequence,   \* AUTOINCREMENT counters, one per table
    now,               \* the clock CURRENT_TIMESTAMP and jwt read
    req,               \* the request served last
    res,               \* the response sent last
    cloud,             \* the media host: the objects it stores
    calls,             \* media-host and file-system calls made while serving req
    pc,                \* handlers suspended inside (or killed between) their steps
    homePage,          \* the React state of the visitor's HomePage
    carousel           \* the props and state of the visitor's ImageCarousel

vars == <<apartments, apartment_images, apartment_videos, admin_users,
          sqlite_sequence, now, req, res, cloud, calls, pc, homePage, carousel>>

\* the visitor's browser, which no step of the server touches
client == <<homePage, carousel>>

store == <<apartments, apartment_images, apartment_videos, admin_users, sqlite_sequence>>

(***************************************************************************)
(* Bounds of the model.                                                    *)
(***************************************************************************)
CatalogListings == 2  \* listings ever created in the catalog specification
EditListings == 2     \* listings ever created in the editing specification
MediaListings == 1    \* listings ever created in the media specifications
AuthListings == 1     \* listings ever created in the gate specification
MaxImages == 2        \* image objects ever stored
MaxVideos == 1        \* video objects ever stored
MaxInflight == 1      \* image deletions suspended at their await at one time
MaxClock == 1         \* ticks of the clock

(***************************************************************************)
(* JavaScript / SQLite values, tagged by type.                             *)
(***************************************************************************)
Undef   == <<"undefined", 0>>
Null    == <<"null", 0>>
Str(s)  == <<"string", s>>
Num(n)  == <<"number", n>>
Bool(b) == <<"boolean", b>>
Arr(a)  == <<"array", a>>
\* a TEXT value holding the JSON text of the array a
JsonText(a) == <<"json", a>>

TypeOf(v) == v[1]

\* JavaScript truthiness: undefined, null, "", 0 and false are falsy.
Truthy(v) ==
    CASE TypeOf(v) = "undefined" -> FALSE
      [] TypeOf(v) = "null"      -> FALSE
      [] TypeOf(v) = "string"    -> v[2] # ""
      [] TypeOf(v) = "number"    -> v[2] # 0
      [] TypeOf(v) = "boolean"   -> v[2]
      [] OTHER                   -> TRUE

\* req.body[k]: a key the body lacks reads as undefined.
Get(body, k) == IF k \in DOMAIN body THEN body[k] ELSE Undef

\* Array.isArray(v) ? JSON.stringify(v) : null
AmenitiesJson(v) == IF TypeOf(v) = "array" THEN JsonText(v[2]) ELSE Null

\* column ? JSON.parse(column) : []
ParseAmenities(v) == IF Truthy(v) /\ TypeOf(v) = "json" THEN Arr(v[2]) ELSE Arr(<<>>)

\* a flag stored as 1 whenever the field is given at all
FlagIfGiven(v) == IF TypeOf(v) = "undefined" THEN Num(0) ELSE Num(1)

\* x ? 1 : 0
Flag(v) == IF Truthy(v) THEN Num(1) ELSE Num(0)

\* Boolean(column)
ToBoolean(v) == Bool(Truthy(v))

\* better-sqlite3 binds numbers, strings and null (undefined binds as NULL);
\* a boolean or an array as a bind parameter throws a TypeError.
Bindable(v) == TypeOf(v) \in {"undefined", "null", "string", "number", "json"}
Bound(v) == IF TypeOf(v) = "undefined" THEN Null ELSE v

(***************************************************************************)
(* URL path segments.  A numeric segment is the text of a number; SQLite's *)
(* INTEGER affinity converts it when it is compared with an id column, and *)
(* a segment that is not numeric equals no id.                             *)
(***************************************************************************)
Lit(s) == <<"lit", s>>
Seg(n) == <<"num", n>>
Param(s) == <<"param", s>>

\* WHERE id = ?  with the path segment bound as the parameter
IdIs(rowid, seg) == seg[1] = "num" /\ seg[2] = rowid

(***************************************************************************)
(* Tokens and the Authorization header.                                    *)
(***************************************************************************)
JWT_SECRET == "JWT_SECRET"
ExpiresInHours == 24

Token(form, key, id, username, iat, exp) ==
    [form |-> form, key |-> key, id |-> id, username |-> username,
     iat |-> iat, exp |-> exp]
NoToken == Token("", "", 0, "", 0, 0)

\* jwt.sign({id, username}, secret, {expiresIn: '24h'}) at time t
Sign(admin, key, t) ==
    Token("jws", key, admin.id, admin.username, t, t + ExpiresInHours)

NoHeader == [present |-> FALSE, scheme |-> "", hasToken |-> FALSE, token |-> NoToken]
SchemeOnly(scheme) == [present |-> TRUE, scheme |-> scheme, hasToken |-> FALSE, token |-> NoToken]
Authorization(scheme, token) ==
    [present |-> TRUE, scheme |-> scheme, hasToken |-> TRUE, token |-> token]

\* jwt.verify(token, secret): the error name, or "ok"
JwtVerify(token, t) ==
    IF token.form # "jws" THEN "JsonWebTokenError"
    ELSE IF token.key # JWT_SECRET THEN "JsonWebTokenError"
    ELSE IF t >= token.exp THEN "TokenExpiredError"
    ELSE "ok"

ErrorBody(error, message) == [error |-> error, message |-> message]
Response(status, body) == [status |-> status, body |-> body]

\* what a middleware returns when it calls next() instead of responding
CallNext == Response(0, ErrorBody("", "next"))
PassedGate(g) == g.status = 0

\* authenticateAdmin: "next" when the handler may run, else the response
\* the middleware sends itself.
AuthenticateAdmin(h, t) ==
    IF ~h.present
    THEN Response(401, ErrorBody("No authorization token provided", "Please login first"))
    ELSE IF ~h.hasToken
    THEN Response(401, ErrorBody("Invalid token format", "Token should be: Bearer <token>"))
    ELSE LET v == JwtVerify(h.token, t) IN
         CASE v = "ok" -> CallNext
           [] v = "JsonWebTokenError" ->
                Response(401, ErrorBody("Invalid token", "Please login again"))
           [] v = "TokenExpiredError" ->
                Response(401, ErrorBody("Token expired",
                                        "Your session has expired. Please login again"))
           [] OTHER -> Response(500, ErrorBody("Authentication failed", v))


(***************************************************************************)
(* Requests and the Express routers.  Routes are tried in the order they   *)
(* were registered; the first whose method and path pattern match serves   *)
(* the request (no handler here calls next() after responding).            *)
(***************************************************************************)
Request(mount, method, path, authorization, body, files) ==
    [mount |-> mount, method |-> method, path |-> path,
     authorization |-> authorization, body |-> body, files |-> files]

Route(method, path, protected, handler) ==
    [method |-> method, path |-> path, protected |-> protected, handler |-> handler]

ApartmentRoutes == <<
    Route("GET",    <<>>,                                   FALSE, "getAllApartments"),
    Route("GET",    <<Param("id")>>,                        FALSE, "getApartmentById"),
    Route("GET",    <<Lit("statistics")>>,                  TRUE,  "getStatistics"),
    Route("POST",   <<>>,                                   TRUE,  "createApartment"),
    Route("PUT",    <<Param("id")>>,                        TRUE,  "updateApartment"),
    Route("DELETE", <<Param("id")>>,                        TRUE,  "deleteApartment"),
    Route("POST",   <<Param("id"), Lit("images")>>,         TRUE,  "uploadImages"),
    Route("POST",   <<Param("id"), Lit("videos")>>,         TRUE,  "uploadVideo"),
    Route("DELETE", <<Param("apartmentId"), Lit("images"), Param("imageId")>>,
                                                            TRUE,  "deleteImage"),
    Route("PUT",    <<Param("apartmentId"), Lit("images"), Param("imageId"), Lit("primary")>>,
                                                            TRUE,  "setPrimary") >>

AdminRoutes == <<
    Route("POST", <<Lit("login")>>,  FALSE, "login"),
    Route("GET",  <<Lit("verify")>>, TRUE,  "verifyToken") >>

RoutesOf(mount) == IF mount = "apartments" THEN ApartmentRoutes ELSE AdminRoutes

Matches(route, r) ==
    /\ route.method = r.method
    /\ Len(route.path) = Len(r.path)
    /\ \A i \in 1..Len(route.path) :
          route.path[i][1] = "param" \/ route.path[i] = r.path[i]

NoRoute == Route("", <<>>, FALSE, "notFound")

\* the first route that matches, or NoRoute (server.js's 404 handler)
Dispatch(r) ==
    LET rs == RoutesOf(r.mount)
        hits == {i \in 1..Len(rs) : Matches(rs[i], r)}
    IN IF hits = {} THEN NoRoute
       ELSE rs[CHOOSE i \in hits : \A j \in hits : i <= j]

(***************************************************************************)
(* Row shaping shared by the listing handlers.                             *)
(***************************************************************************)
BodyFields == {"title", "description", "bedrooms", "bathrooms", "max_guests",
               "price_per_night", "address", "city", "state",
               "available", "featured", "amenities"}

allowedFields == BodyFields

RequiredFields == {"title", "bedrooms", "bathrooms", "max_guests",
                   "price_per_night", "address", "city", "state"}

\* columns declared NOT NULL in CREATE TABLE apartments
NotNullColumns == RequiredFields

Perms(S) == {s \in [1..Cardinality(S) -> S] : \A i, j \in 1..Cardinality(S) : i # j => s[i] # s[j]}

\* ORDER BY created_at DESC (rows with equal keys come in any order)
ByCreatedDesc(S) ==
    {s \in Perms(S) : \A i, j \in 1..Len(s) : i < j => s[i].created_at >= s[j].created_at}

ImagesOf(images, id) == {im \in images : im.apartment_id = id}
VideosOf(videos, id) == {v \in videos : v.apartment_id = id}

\* the images query without its ORDER BY
ImageOrderAny(S) == Perms(S)

\* ORDER BY is_primary DESC, display_order ASC
ImageOrder(S) ==
    {s \in Perms(S) : \A i, j \in 1..Len(s) : i < j =>
        \/ s[i].is_primary > s[j].is_primary
        \/ s[i].is_primary = s[j].is_primary /\ s[i].display_order <= s[j].display_order}

\* {...apt, available: Boolean(..), featured: Boolean(..), amenities: parsed}
Shaped(row) ==
    [row EXCEPT !.available = ToBoolean(row.available),
                !.featured = ToBoolean(row.featured),
                !.amenities = ParseAmenities(row.amenities)]

\* {...shaped, images, videos}
WithMedia(row, imgs, vids) == Shaped(row) @@ [images |-> imgs, videos |-> vids]

NotFoundApartment(seg) ==
    Response(404, ErrorBody("Apartment not found", <<"No apartment found with ID: ", seg>>))


ServerError(error, message) == Response(500, ErrorBody(error, message))

\* what a handler leaves alone when it writes nothing
NoWrite ==
    /\ UNCHANGED <<apartments, apartment_images, apartment_videos, admin_users,
                   sqlite_sequence, cloud, pc>>
    /\ calls' = {}

Call(op, arg) == [op |-> op, arg |-> arg]

\* a statement that lost its WHERE clause
FindAny(rows, seg) == rows

\* a lookup with the public list's filter: AND available = 1
FindAvailable(rows, seg) == {row \in rows : IdIs(row.id, seg) /\ row.available = Num(1)}

\* SELECT * FROM <table> WHERE id = ?
Find(rows, seg) == {row \in rows : IdIs(row.id, seg)}

ImageRows(id) == ImageOrder(ImagesOf(apartment_images, id))
VideoRows(id) == Perms(VideosOf(apartment_videos, id))

\* one result order per listing, for the per-listing image and video queries
ImageChoices(ids) ==
    {f \in [ids -> UNION {ImageRows(id) : id \in ids}] : \A id \in ids : f[id] \in ImageRows(id)}
VideoChoices(ids) ==
    {f \in [ids -> UNION {VideoRows(id) : id \in ids}] : \A id \in ids : f[id] \in VideoRows(id)}

(***************************************************************************)
(* GET /api/apartments                                                     *)
(***************************************************************************)
\* a list that looks at the signature of the token
CarriesSignedToken(h) ==
    h.present /\ h.hasToken /\ h.token.form = "jws" /\ h.token.key = JWT_SECRET

\* req.headers.authorization && req.headers.authorization.startsWith('Bearer')
IsAdminHeader(h) == h.present /\ h.scheme = "Bearer"

\* a list that runs the admin's SELECT for everyone
ListQueryUnfiltered(rows, isAdmin) == rows

\* the two SELECTs of getAllApartments
ListQuery(rows, isAdmin) ==
    IF isAdmin THEN rows ELSE {row \in rows : row.available = Num(1)}

GetAllApartments(r) ==
    LET rows == ListQuery(apartments, IsAdminHeader(r.authorization))
        ids == {row.id : row \in rows}
    IN /\ \E order \in ByCreatedDesc(rows) :
          \E imgs \in ImageChoices(ids) :
          \E vids \in VideoChoices(ids) :
             res' = Response(200,
                       [success |-> TRUE, count |-> Len(order),
                        apartments |-> [i \in 1..Len(order) |->
                            WithMedia(order[i], imgs[order[i].id], vids[order[i].id])]])
       /\ NoWrite

(***************************************************************************)
(* GET /api/apartments/:id                                                 *)
(***************************************************************************)
GetApartmentById(r, id) ==
    LET found == Find(apartments, id) IN
    /\ IF found = {}
       THEN res' = NotFoundApartment(id)
       ELSE \E row \in found :
            \E imgs \in ImageRows(row.id) :
            \E vids \in VideoRows(row.id) :
               res' = Response(200, [success |-> TRUE,
                                     apartment |-> WithMedia(row, imgs, vids)])
    /\ NoWrite

(***************************************************************************)
(* POST /api/apartments                                                    *)
(***************************************************************************)
\* destructuring with a default: the default applies to undefined only
Default(v, d) == IF TypeOf(v) = "undefined" THEN d ELSE v

\* the columns of the INSERT, from the destructured body
InsertValues(b) ==
    [title           |-> Bound(Get(b, "title")),
     description     |-> Bound(Get(b, "description")),
     bedrooms        |-> Bound(Get(b, "bedrooms")),
     bathrooms       |-> Bound(Get(b, "bathrooms")),
     max_guests      |-> Bound(Get(b, "max_guests")),
     price_per_night |-> Bound(Get(b, "price_per_night")),
     address         |-> Bound(Get(b, "address")),
     city            |-> Bound(Get(b, "city")),
     state           |-> Bound(Get(b, "state")),
     available       |-> Flag(Default(Get(b, "available"), Bool(TRUE))),
     featured        |-> Flag(Default(Get(b, "featured"), Bool(FALSE))),
     amenities       |-> AmenitiesJson(Default(Get(b, "amenities"), Arr(<<>>)))]

PassedBound == {"title", "description", "bedrooms", "bathrooms", "max_guests",
                "price_per_night", "address", "city", "state"}

\* a validation that forgets the last field of the list
MissingRequiredSansState(b) == \E f \in RequiredFields \ {"state"} : ~Truthy(Get(b, f))

\* !title || !bedrooms || !bathrooms || !max_guests || !price_per_night || ...
MissingRequired(b) == \E f \in RequiredFields : ~Truthy(Get(b, f))

MissingFieldsResponse ==
    Response(400, ErrorBody("Missing required fields",
        "Title, bedrooms, bathrooms, max_guests, price_per_night, address, city, and state are required"))

CreateApartment(r) ==
    LET b == r.body
        id == sqlite_sequence.apartments + 1
        row == InsertValues(b) @@ [id |-> id, created_at |-> now, updated_at |-> now]
    IN IF MissingRequired(b)
       THEN res' = MissingFieldsResponse /\ NoWrite
       ELSE IF \E f \in PassedBound : ~Bindable(Get(b, f))
       THEN res' = ServerError("Failed to create apartment", "TypeError") /\ NoWrite
       ELSE /\ apartments' = apartments \cup {row}
            /\ sqlite_sequence' = [sqlite_sequence EXCEPT !.apartments = id]
            /\ res' = Response(201, [success |-> TRUE,
                                     message |-> "Apartment created successfully",
                                     apartment |-> WithMedia(row, <<>>, <<>>)])
            /\ calls' = {}
            /\ UNCHANGED <<apartment_images, apartment_videos, admin_users, cloud, pc>>

(***************************************************************************)
(* PUT /api/apartments/:id                                                 *)
(***************************************************************************)
\* the value pushed for key k
UpdateValue(b, k) ==
    IF k \in {"available", "featured"} THEN Flag(b[k])
    ELSE IF k = "amenities" THEN AmenitiesJson(b[k])
    ELSE Bound(b[k])

\* Object.keys(updates) filtered by allowedFields.includes(key)
UpdateKeys(b) == DOMAIN b \cap allowedFields

NoValidFieldsResponse ==
    Response(400, ErrorBody("No valid fields to update",
                            "Provide at least one valid field to update"))

\* an emptiness test made after updated_at has been pushed
TouchEvenIfEmpty(b) == FALSE

\* updateFields.length === 0
NothingToUpdate(b) == UpdateKeys(b) = {}

\* a PUT that replaces the row: a column the body does not name goes to NULL
UpdatedReplacing(row, b, t) ==
    [f \in DOMAIN row |->
        IF f \in UpdateKeys(b) THEN UpdateValue(b, f)
        ELSE IF f = "updated_at" THEN t
        ELSE IF f = "description" THEN Null
        ELSE row[f]]

\* UPDATE apartments SET <key = ?, ...>, updated_at = CURRENT_TIMESTAMP WHERE id = ?
Updated(row, b, t) ==
    [f \in DOMAIN row |->
        IF f \in UpdateKeys(b) THEN UpdateValue(b, f)
        ELSE IF f = "updated_at" THEN t
        ELSE row[f]]

UpdateApartment(r, id) ==
    LET b == r.body
        found == Find(apartments, id)
        keys == UpdateKeys(b)
    IN IF found = {}
       THEN res' = NotFoundApartment(id) /\ NoWrite
       ELSE IF NothingToUpdate(b)
       THEN res' = NoValidFieldsResponse /\ NoWrite
       ELSE IF \E k \in keys : ~Bindable(UpdateValue(b, k))
       THEN res' = ServerError("Failed to update apartment", "TypeError") /\ NoWrite
       ELSE IF \E k \in keys \cap NotNullColumns : TypeOf(UpdateValue(b, k)) = "null"
       THEN res' = ServerError("Failed to update apartment", "NOT NULL constraint failed")
            /\ NoWrite
       ELSE \E row \in found :
            LET updated == Updated(row, b, now)
            IN /\ apartments' = (apartments \ {row}) \cup {updated}
               /\ res' = Response(200, [success |-> TRUE,
                                        message |-> "Apartment updated successfully",
                                        apartment |-> Shaped(updated)])
               /\ calls' = {}
               /\ UNCHANGED <<apartment_images, apartment_videos, admin_users,
                              sqlite_sequence, cloud, pc>>

(***************************************************************************)
(* DELETE /api/apartments/:id                                              *)
(***************************************************************************)
\* foreign_keys left off: the children stay
NoCascade(children, id) == children

\* ON DELETE CASCADE with foreign_keys = ON: the children go with the parent
Cascade(children, id) == {c \in children : c.apartment_id # id}


\* a handler whose unlink promises carry no .catch: a rejection reaches
\* the handler's own catch block
FailOnUnlinkError(failed) ==
    IF failed = {}
    THEN Response(200, [success |-> TRUE, message |-> "Apartment deleted successfully"])
    ELSE ServerError("Failed to delete apartment", "ENOENT")

\* each rejection is caught and logged on its own promise, so Promise.all
\* resolves and the handler answers success
DeletedResponse(failed) ==
    Response(200, [success |-> TRUE, message |-> "Apartment deleted successfully"])

\* the handler up to its await: the lookup, the two SELECTs, the DELETE and
\* one fs.unlink(path.join(__dirname, '..', url)) per image and video.  With
\* no promise to wait for, Promise.all resolves without yielding to another
\* request.
DeleteApartment(r, id) ==
    LET found == Find(apartments, id) IN
    IF found = {}
    THEN res' = NotFoundApartment(id) /\ NoWrite
    ELSE \E row \in found :
         LET images == ImagesOf(apartment_images, row.id)
             videos == VideosOf(apartment_videos, row.id)
             paths == {im.image_url : im \in images} \cup {v.video_url : v \in videos}
         IN /\ apartments' = apartments \ {row}
            /\ apartment_images' = Cascade(apartment_images, row.id)
            /\ apartment_videos' = Cascade(apartment_videos, row.id)
            /\ calls' = {Call("unlink", p) : p \in paths}
            /\ IF paths = {}
               THEN /\ res' = DeletedResponse({})
                    /\ pc' = pc
               ELSE /\ res' = Response(0, ErrorBody("", "pending"))
                    /\ pc' = [pc EXCEPT !.awaiting = @ \cup {[req |-> r, paths |-> paths]}]
            /\ UNCHANGED <<admin_users, sqlite_sequence, cloud>>

\* the rest of the handler, once every unlink has succeeded or failed
DeleteApartmentSettle ==
    \E w \in {x \in pc.awaiting : "paths" \in DOMAIN x} : \E failed \in SUBSET w.paths :
       /\ pc.running = <<>>
       /\ pc' = [pc EXCEPT !.awaiting = @ \ {w}]
       /\ calls' = {Call("unlink settled",
                         [path |-> p, result |-> IF p \in failed THEN "ENOENT" ELSE "ok"])
                       : p \in w.paths}
       /\ req' = w.req
       /\ res' = DeletedResponse(failed)
       /\ UNCHANGED <<apartments, apartment_images, apartment_videos, admin_users,
                      sqlite_sequence, cloud, now, client>>

(***************************************************************************)
(* GET /api/apartments/statistics                                          *)
(***************************************************************************)
GetStatistics(r) ==
    /\ res' = Response(200, [success |-> TRUE, statistics |->
          [totalApartments     |-> Cardinality(apartments),
           availableApartments |-> Cardinality({a \in apartments : a.available = Num(1)}),
           reservedApartments  |-> Cardinality({a \in apartments : a.available = Num(0)}),
           totalImages         |-> Cardinality(apartment_images),
           featuredApartments  |-> Cardinality({a \in apartments : a.featured = Num(1)})]])
    /\ NoWrite


(***************************************************************************)
(* Uploads.  multer runs after authenticateAdmin and before the handler:   *)
(* fileFilter screens each file by MIME type, CloudinaryStorage stores the *)
(* accepted files in the configured folder and puts the object's URL in    *)
(* file.path.                                                              *)
(***************************************************************************)
CLOUD_NAME == "CLOUDINARY_CLOUD_NAME"

allowedImageTypes == {"image/jpeg", "image/jpg", "image/png", "image/webp"}
allowedVideoTypes == {"video/mp4", "video/webm", "video/ogg"}

fileFilter(file) == file.mimetype \in allowedImageTypes \cup allowedVideoTypes

imageStorage == [folder |-> <<"khael-apartments", "images">>,
                 allowed_formats |-> {"jpg", "jpeg", "png", "webp"},
                 resource_type |-> "image"]
videoStorage == [folder |-> <<"khael-apartments", "videos">>,
                 allowed_formats |-> {"mp4", "webm", "ogg"},
                 resource_type |-> "video"]

PublicId(folder, name) == [folder |-> folder, name |-> name]

\* https://res.cloudinary.com/<cloud>/<type>/upload/v1/<folder>/<name>.<ext>,
\* split at '/' into dirs, the file name split at '.'
Url(storage, name, ext) ==
    [dirs |-> <<"https:", "", "res.cloudinary.com", CLOUD_NAME, storage.resource_type,
                "upload", "v1">> \o storage.folder,
     stem |-> name, ext |-> ext]

\* the object CloudinaryStorage stores for the i-th file of a request
StoredFile(storage, file, name) ==
    [path |-> Url(storage, name, file.format),
     filename |-> PublicId(storage.folder, name),
     mimetype |-> file.mimetype]

\* multer's verdict on the files of a request: "ok", or the error passed to next(err)
Multer(storage, files, maxCount) ==
    IF Len(files) > maxCount THEN "Unexpected field"
    ELSE IF \E i \in 1..Len(files) : ~fileFilter(files[i]) THEN "Invalid file type"
    ELSE IF \E i \in 1..Len(files) : files[i].format \notin storage.allowed_formats
    THEN "An unknown file format not allowed"
    ELSE "ok"

\* server.js's global error handler
GlobalError(message) == Response(500, [error |-> message])

MaxOrder(imgs) == CHOOSE m \in {im.display_order : im \in imgs} :
                     \A im \in imgs : im.display_order <= m

\* (maxOrder?.max_order || -1) + 1: MAX() of no rows is NULL, and 0 is falsy too
FirstOrder(imgs) ==
    IF imgs = {} THEN 0
    ELSE IF MaxOrder(imgs) = 0 THEN 0
    ELSE MaxOrder(imgs) + 1

\* is_primary of a row the upload inserts (the column's DEFAULT 0)
DefaultPrimary == 0

UploadImages(r, id) ==
    LET files == r.files
        verdict == Multer(imageStorage, files, 10)
        base == cloud.imageObjects
        stored == [i \in 1..Len(files) |-> StoredFile(imageStorage, files[i], base + i)]
        found == Find(apartments, id)
    IN IF verdict # "ok"
       THEN res' = GlobalError(verdict) /\ NoWrite
       ELSE /\ cloud' = [cloud EXCEPT
                  !.imageObjects = base + Len(files),
                  !.objects = @ \cup {stored[i].filename : i \in 1..Len(files)}]
            /\ calls' = {Call("upload", stored[i].filename) : i \in 1..Len(files)}
            /\ IF found = {}
               THEN /\ res' = NotFoundApartment(id)
                    /\ UNCHANGED <<apartments, apartment_images, apartment_videos,
                                   admin_users, sqlite_sequence, pc>>
               ELSE IF Len(files) = 0
               THEN /\ res' = Response(400, ErrorBody("No files uploaded",
                                   "Please select at least one image to upload"))
                    /\ UNCHANGED <<apartments, apartment_images, apartment_videos,
                                   admin_users, sqlite_sequence, pc>>
               ELSE \E row \in found :
                    LET first == FirstOrder(ImagesOf(apartment_images, row.id))
                        seq == sqlite_sequence.apartment_images
                    IN /\ apartment_images' = apartment_images \cup
                            {[id |-> seq + i, apartment_id |-> row.id,
                              image_url |-> stored[i].path,
                              is_primary |-> DefaultPrimary,
                              display_order |-> first + (i - 1)] : i \in 1..Len(files)}
                       /\ sqlite_sequence' =
                            [sqlite_sequence EXCEPT !.apartment_images = seq + Len(files)]
                       /\ res' = Response(200, [success |-> TRUE,
                              images |-> [i \in 1..Len(files) |->
                                  [url |-> stored[i].path, filename |-> stored[i].filename]]])
                       /\ UNCHANGED <<apartments, apartment_videos, admin_users, pc>>

UploadVideo(r, id) ==
    LET files == r.files
        verdict == Multer(videoStorage, files, 1)
        base == cloud.videoObjects
        stored == [i \in 1..Len(files) |-> StoredFile(videoStorage, files[i], base + i)]
        found == Find(apartments, id)
    IN IF verdict # "ok"
       THEN res' = GlobalError(verdict) /\ NoWrite
       ELSE /\ cloud' = [cloud EXCEPT
                  !.videoObjects = base + Len(files),
                  !.objects = @ \cup {stored[i].filename : i \in 1..Len(files)}]
            /\ calls' = {Call("upload", stored[i].filename) : i \in 1..Len(files)}
            /\ IF found = {}
               THEN /\ res' = NotFoundApartment(id)
                    /\ UNCHANGED <<apartments, apartment_images, apartment_videos,
                                   admin_users, sqlite_sequence, pc>>
               ELSE IF Len(files) = 0
               THEN /\ res' = Response(400, ErrorBody("No file uploaded",
                                   "Please select a video to upload"))
                    /\ UNCHANGED <<apartments, apartment_images, apartment_videos,
                                   admin_users, sqlite_sequence, pc>>
               ELSE \E row \in found :
                    LET seq == sqlite_sequence.apartment_videos
                    IN /\ apartment_videos' = apartment_videos \cup
                            {[id |-> seq + 1, apartment_id |-> row.id,
                              video_url |-> stored[1].path]}
                       /\ sqlite_sequence' =
                            [sqlite_sequence EXCEPT !.apartment_videos = seq + 1]
                       /\ res' = Response(200, [success |-> TRUE,
                              video |-> [url |-> stored[1].path,
                                         filename |-> stored[1].filename]])
                       /\ UNCHANGED <<apartments, apartment_images, admin_users, pc>>


(***************************************************************************)
(* DELETE /api/apartments/:apartmentId/images/:imageId                     *)
(* The handler awaits cloudinary.uploader.destroy between its lookup and   *)
(* its DELETE, so other requests are served in between.                    *)
(***************************************************************************)
\* a lookup that lost its AND apartment_id = ?
ImageLookupById(apartmentId, imageId) ==
    {im \in apartment_images : IdIs(im.id, imageId)}

ImageLookup(apartmentId, imageId) ==
    {im \in apartment_images : IdIs(im.id, imageId) /\ IdIs(im.apartment_id, apartmentId)}

\* urlParts = url.split('/'); filename = last.split('.')[0];
\* folder = urlParts[urlParts.length - 2]; publicId = `${folder}/${filename}`
DerivedPublicId(url) == PublicId(<<url.dirs[Len(url.dirs)]>>, url.stem)

Idle == [running |-> <<>>, awaiting |-> {}]

DeleteImage(r, apartmentId, imageId) ==
    LET found == ImageLookup(apartmentId, imageId) IN
    IF found = {}
    THEN /\ res' = Response(404, ErrorBody("Image not found",
                      "Image does not exist or does not belong to this apartment"))
         /\ NoWrite
    ELSE \E im \in found :
         /\ calls' = {Call("destroy", DerivedPublicId(im.image_url))}
         /\ pc' = [pc EXCEPT !.awaiting =
                      @ \cup {[req |-> r, publicId |-> DerivedPublicId(im.image_url)]}]
         /\ res' = Response(0, ErrorBody("", "pending"))
         /\ UNCHANGED <<apartments, apartment_images, apartment_videos, admin_users,
                        sqlite_sequence, cloud>>

\* how destroy can settle: the host removes the object it holds under the
\* id, reports that it holds none, or the call rejects
DestroyOutcomes(publicId) ==
    IF publicId \in cloud.objects THEN {"ok", "error"} ELSE {"not found", "error"}

\* a handler whose DELETE sits inside the try block of destroy
RowsKeptOnFailure(images, imageId, outcome) ==
    IF outcome = "error" THEN images ELSE {im \in images : ~IdIs(im.id, imageId)}

\* the rejection is caught and logged, then
\* DELETE FROM apartment_images WHERE id = ?
RowsAfterDestroy(images, imageId, outcome) == {im \in images : ~IdIs(im.id, imageId)}

\* the rest of the handler, once destroy has resolved or rejected
DeleteImageResume ==
    \E w \in {x \in pc.awaiting : "publicId" \in DOMAIN x} :
    \E outcome \in DestroyOutcomes(w.publicId) :
       /\ pc.running = <<>>
       /\ pc' = [pc EXCEPT !.awaiting = @ \ {w}]
       /\ apartment_images' = RowsAfterDestroy(apartment_images, w.req.path[3], outcome)
       /\ cloud' = IF outcome = "ok" THEN [cloud EXCEPT !.objects = @ \ {w.publicId}]
                  ELSE cloud
       /\ calls' = {Call("destroy settled", [public_id |-> w.publicId, result |-> outcome])}
       /\ req' = w.req
       /\ res' = Response(200, [success |-> TRUE, message |-> "Image deleted successfully"])
       /\ UNCHANGED <<apartments, apartment_videos, admin_users, sqlite_sequence, now,
                      client>>

(***************************************************************************)
(* PUT /api/apartments/:apartmentId/images/:imageId/primary                *)
(* Two UPDATE statements, each committed on its own.                       *)
(***************************************************************************)
\* a set-primary that skips its first statement
ClearPrimarySkipped(images, apartmentId) == images

\* UPDATE apartment_images SET is_primary = 0 WHERE apartment_id = ?
ClearPrimary(images, apartmentId) ==
    {IF IdIs(im.apartment_id, apartmentId) THEN [im EXCEPT !.is_primary = 0] ELSE im
        : im \in images}

\* a second statement whose WHERE names the listing of the image
MarkPrimaryOfListing(images, imageId) ==
    {IF \E t \in images : IdIs(t.id, imageId) /\ t.apartment_id = im.apartment_id
     THEN [im EXCEPT !.is_primary = 1] ELSE im : im \in images}

\* UPDATE apartment_images SET is_primary = 1 WHERE id = ?
MarkPrimary(images, imageId) ==
    {IF IdIs(im.id, imageId) THEN [im EXCEPT !.is_primary = 1] ELSE im : im \in images}

SetPrimary(r, apartmentId, imageId) ==
    IF ImageLookup(apartmentId, imageId) = {}
    THEN /\ res' = Response(404, ErrorBody("Image not found",
                      "Image does not exist or does not belong to this apartment"))
         /\ NoWrite
    ELSE /\ apartment_images' = ClearPrimary(apartment_images, apartmentId)
         /\ pc' = [pc EXCEPT !.running = <<r>>]
         /\ res' = Response(0, ErrorBody("", "pending"))
         /\ calls' = {}
         /\ UNCHANGED <<apartments, apartment_videos, admin_users, sqlite_sequence, cloud>>

\* a request received and not yet answered
Open(r) == [req |-> r, open |-> TRUE]

\* the second statement and the response
SetPrimaryMark ==
    /\ pc.running # <<>>
    /\ LET r == pc.running[1] IN
       /\ apartment_images' = MarkPrimary(apartment_images, r.path[3])
       /\ req' = r
       /\ pc' = [running |-> <<>>, awaiting |-> pc.awaiting \ {Open(r)}]
    /\ res' = Response(200, [success |-> TRUE,
                             message |-> "Primary image updated successfully"])
    /\ calls' = {}
    /\ UNCHANGED <<apartments, apartment_videos, admin_users, sqlite_sequence, cloud, now,
                   client>>

\* the process dies: statements already run stay committed, handlers in flight are lost
Crash ==
    /\ pc # Idle
    /\ pc' = Idle
    /\ UNCHANGED <<apartments, apartment_images, apartment_videos, admin_users,
                   sqlite_sequence, cloud, calls, now, req, res, client>>

(***************************************************************************)
(* POST /api/admin/login, GET /api/admin/verify                            *)
(***************************************************************************)
BcryptRounds == 10

\* bcrypt.hashSync(password, 10)
HashSync(password) == [alg |-> "bcrypt", rounds |-> BcryptRounds, of |-> password]

\* bcrypt.compare(password, hash)
Compare(password, hash) == hash = HashSync(password)

InvalidCredentials ==
    Response(401, ErrorBody("Invalid credentials", "Username or password is incorrect"))

\* a reply that tells the caller the username is unknown
UnknownUserResponse ==
    Response(401, ErrorBody("Invalid credentials", "Username not found"))

\* the response to a username that is not in admin_users
NoSuchAdmin == InvalidCredentials

Login(r) ==
    LET username == Get(r.body, "username")
        password == Get(r.body, "password")
        found == {a \in admin_users : TypeOf(username) = "string" /\ a.username = username[2]}
    IN /\ IF ~Truthy(username) \/ ~Truthy(password)
          THEN res' = Response(400, ErrorBody("Missing credentials",
                                              "Username and password are required"))
          ELSE IF ~Bindable(username)
          THEN res' = ServerError("Login failed", "TypeError")
          ELSE IF found = {}
          THEN res' = NoSuchAdmin
          ELSE \E admin \in found :
               IF TypeOf(password) # "string"
               THEN res' = ServerError("Login failed", "Illegal arguments")
               ELSE IF ~Compare(password[2], admin.password)
               THEN res' = InvalidCredentials
               ELSE res' = Response(200,
                       [success |-> TRUE, message |-> "Login successful",
                        token |-> Sign(admin, JWT_SECRET, now),
                        admin |-> [id |-> admin.id, username |-> admin.username]])
       /\ NoWrite

VerifyToken(r) ==
    /\ res' = Response(200, [success |-> TRUE, message |-> "Token is valid",
                 admin |-> [id |-> r.authorization.token.id,
                            username |-> r.authorization.token.username]])
    /\ NoWrite

RouteNotFound(r) ==
    /\ res' = Response(404, ErrorBody("Route not found", <<"Cannot ", r.method, r.path>>))
    /\ NoWrite

(***************************************************************************)
(* One request, from the router to the response.                           *)
(***************************************************************************)
\* req.params[name] under route rt
P(rt, r, name) == r.path[CHOOSE i \in 1..Len(rt.path) : rt.path[i] = Param(name)]

Serve(r) ==
    LET rt == Dispatch(r)
        gate == IF rt.protected THEN AuthenticateAdmin(r.authorization, now) ELSE CallNext
    IN /\ req' = r
       /\ UNCHANGED <<now, client>>
       /\ IF ~PassedGate(gate)
          THEN res' = gate /\ NoWrite
          ELSE CASE rt.handler = "getAllApartments" -> GetAllApartments(r)
                 [] rt.handler = "getApartmentById" -> GetApartmentById(r, P(rt, r, "id"))
                 [] rt.handler = "getStatistics"    -> GetStatistics(r)
                 [] rt.handler = "createApartment"  -> CreateApartment(r)
                 [] rt.handler = "updateApartment"  -> UpdateApartment(r, P(rt, r, "id"))
                 [] rt.handler = "deleteApartment"  -> DeleteApartment(r, P(rt, r, "id"))
                 [] rt.handler = "uploadImages"     -> UploadImages(r, P(rt, r, "id"))
                 [] rt.handler = "uploadVideo"      -> UploadVideo(r, P(rt, r, "id"))
                 [] rt.handler = "deleteImage"      ->
                        DeleteImage(r, P(rt, r, "apartmentId"), P(rt, r, "imageId"))
                 [] rt.handler = "setPrimary"       ->
                        SetPrimary(r, P(rt, r, "apartmentId"), P(rt, r, "imageId"))
                 [] rt.handler = "login"            -> Login(r)
                 [] rt.handler = "verifyToken"      -> VerifyToken(r)
                 [] OTHER                           -> RouteNotFound(r)


(***************************************************************************)
(* The state after server.js has run initializeDatabase() on a new         *)
(* database file: empty tables and the default admin.                      *)
(***************************************************************************)
DefaultAdmin == [id |-> 1, username |-> "admin", password |-> HashSync("admin123")]

EmptyBody == [k \in {} |-> Undef]

NoRequest == Request("", "", <<>>, NoHeader, EmptyBody, <<>>)

\* useState of HomePage: apartments, filteredApartments, filters
HomePageState(apts, filtered, filters) ==
    [apartments |-> apts, filteredApartments |-> filtered, filters |-> filters]

\* useState({minPrice: 0, maxPrice: 200000, bedrooms: 'all'})
DefaultFilters == [minPrice |-> 0, maxPrice |-> 200000, bedrooms |-> "all"]

\* ImageCarousel({images}) with useState(0)
Mounted(images) == [images |-> images, currentIndex |-> 0]

Init ==
    /\ apartments = {}
    /\ apartment_images = {}
    /\ apartment_videos = {}
    /\ admin_users = {DefaultAdmin}
    /\ sqlite_sequence = [apartments |-> 0, apartment_images |-> 0,
                          apartment_videos |-> 0, admin_users |-> 1]
    /\ now = 0
    /\ req = NoRequest
    /\ res = Response(0, ErrorBody("", "none"))
    /\ cloud = [objects |-> {}, imageObjects |-> 0, videoObjects |-> 0]
    /\ calls = {}
    /\ pc = Idle
    /\ homePage = HomePageState(<<>>, <<>>, DefaultFilters)
    /\ carousel = Mounted(<<>>)

Tick ==
    /\ now < MaxClock
    /\ pc.running = <<>>
    /\ now' = now + 1
    /\ UNCHANGED <<apartments, apartment_images, apartment_videos, admin_users,
                   sqlite_sequence, req, res, cloud, calls, pc, client>>

(***************************************************************************)
(* Requests clients send.                                                  *)
(***************************************************************************)
\* Authorization headers: a token of a login at time 0, one whose 24 hours
\* ended at time 0, one signed with another key, one that is no JWT, the
\* scheme word alone, and no header.
GoodHeader      == Authorization("Bearer", Sign(DefaultAdmin, JWT_SECRET, 0))
ExpiredHeader   == Authorization("Bearer", Sign(DefaultAdmin, JWT_SECRET, 0 - ExpiresInHours))
ForgedHeader    == Authorization("Bearer", Sign(DefaultAdmin, "guessed", 0))
MalformedHeader == Authorization("Bearer", Token("text", "", 0, "", 0, 0))
BareScheme      == SchemeOnly("Bearer")
BadHeaders == {NoHeader, BareScheme, ForgedHeader, MalformedHeader, ExpiredHeader}
AllHeaders == BadHeaders \cup {GoodHeader}

ValidBody ==
    [title |-> Str("Loft"), description |-> Str("Two rooms"), bedrooms |-> Num(2),
     bathrooms |-> Num(1), max_guests |-> Num(3), price_per_night |-> Num(20000),
     address |-> Str("1 Main St"), city |-> Str("Abuja"), state |-> Str("FCT")]

Without(b, f) == [k \in DOMAIN b \ {f} |-> b[k]]
With(b, f, v) == [k \in DOMAIN b \cup {f} |-> IF k = f THEN v ELSE b[k]]

NumericFields == {"bedrooms", "bathrooms", "max_guests", "price_per_night"}

ReservedBody ==
    With(With(With(ValidBody, "available", Bool(FALSE)), "featured", Bool(TRUE)),
         "amenities", Arr(<<"wifi">>))

CreateBodies ==
    {ValidBody, ReservedBody}
    \cup {Without(ValidBody, f) : f \in RequiredFields}
    \cup {With(ValidBody, f, Null) : f \in RequiredFields}
    \cup {With(ValidBody, f, Num(0)) : f \in NumericFields}

Segs(n) == {Seg(i) : i \in 1..n}

\* a server that takes up a request while a handler is between its statements
ReadyAnytime == TRUE

\* no request is taken up while a synchronous handler is between its statements
Ready == pc.running = <<>>

List(H) ==
    \E h \in H :
       /\ Ready
       /\ Serve(Request("apartments", "GET", <<>>, h, EmptyBody, <<>>))

GetById(H, S) ==
    \E h \in H, s \in S :
       /\ Ready
       /\ Serve(Request("apartments", "GET", <<s>>, h, EmptyBody, <<>>))

Statistics(H) ==
    \E h \in H :
       /\ Ready
       /\ Serve(Request("apartments", "GET", <<Lit("statistics")>>, h, EmptyBody, <<>>))

Create(H, B, cap) ==
    \E h \in H, b \in B :
       /\ Ready
       /\ sqlite_sequence.apartments < cap
       /\ Serve(Request("apartments", "POST", <<>>, h, b, <<>>))

Update(H, S, B) ==
    \E h \in H, s \in S, b \in B :
       /\ Ready
       /\ Serve(Request("apartments", "PUT", <<s>>, h, b, <<>>))

Delete(H, S) ==
    \E h \in H, s \in S :
       /\ Ready
       /\ Cardinality(pc.awaiting) < MaxInflight
       /\ Serve(Request("apartments", "DELETE", <<s>>, h, EmptyBody, <<>>))

PostImages(H, S, F) ==
    \E h \in H, s \in S, f \in F :
       /\ Ready
       /\ cloud.imageObjects + Len(f) <= MaxImages
       /\ Serve(Request("apartments", "POST", <<s, Lit("images")>>, h, EmptyBody, f))

PostVideo(H, S, F) ==
    \E h \in H, s \in S, f \in F :
       /\ Ready
       /\ cloud.videoObjects + Len(f) <= MaxVideos
       /\ Serve(Request("apartments", "POST", <<s, Lit("videos")>>, h, EmptyBody, f))

DeleteImageOf(H, S, I) ==
    \E h \in H, s \in S, i \in I :
       /\ Ready
       /\ Cardinality(pc.awaiting) < MaxInflight
       /\ Serve(Request("apartments", "DELETE", <<s, Lit("images"), i>>,
                        h, EmptyBody, <<>>))

PutPrimary(H, S, I) ==
    \E h \in H, s \in S, i \in I :
       /\ Ready
       /\ Serve(Request("apartments", "PUT", <<s, Lit("images"), i, Lit("primary")>>,
                        h, EmptyBody, <<>>))

PostLogin(B) ==
    \E b \in B :
       /\ Ready
       /\ Serve(Request("admin", "POST", <<Lit("login")>>, NoHeader, b, <<>>))

GetVerify(H) ==
    \E h \in H :
       /\ Ready
       /\ Serve(Request("admin", "GET", <<Lit("verify")>>, h, EmptyBody, <<>>))

Jpeg == [mimetype |-> "image/jpeg", format |-> "jpg"]
Png  == [mimetype |-> "image/png", format |-> "png"]
Mp4  == [mimetype |-> "video/mp4", format |-> "mp4"]

AdminOnly == {GoodHeader}
ValidBodies == {ValidBody}
OneVideo == {<<Mp4>>}
OneImage == {<<Jpeg>>}
FullBatch == {[i \in 1..MaxImages |-> Jpeg]}
FirstSeg == Segs(1)

(***************************************************************************)
(* The catalog: an admin creates listings, marks them reserved or          *)
(* available again and deletes them; the public and the admin list them.   *)
(***************************************************************************)
ListHeaders == {NoHeader, GoodHeader}
AvailabilityBodies == {[available |-> Bool(FALSE)], [available |-> Bool(TRUE)]}
CatalogSegs == Segs(CatalogListings + 1)

CatalogNext ==
    \/ Create(AdminOnly, CreateBodies, CatalogListings)
    \/ Update(AdminOnly, CatalogSegs, AvailabilityBodies)
    \/ Delete(AdminOnly, CatalogSegs)
    \/ List(ListHeaders)

Spec == Init /\ [][CatalogNext]_vars

(***************************************************************************)
(* Editing: listings made from one valid body are updated while the clock  *)
(* advances; a batch of images and a video are attached meanwhile.         *)
(***************************************************************************)
EditBodies ==
    {EmptyBody,
     [id |-> Num(9), unknown |-> Str("x")],
     [title |-> Str("Villa"), id |-> Num(9), updated_at |-> Num(7)],
     [title |-> Str("Villa"), description |-> Str("Two rooms")]}

EditSegs == Segs(EditListings)

EditNext ==
    \/ Create(AdminOnly, ValidBodies, EditListings)
    \/ Update(AdminOnly, EditSegs, EditBodies)
    \/ PostImages(AdminOnly, FirstSeg, FullBatch)
    \/ PostVideo(AdminOnly, FirstSeg, OneVideo)
    \/ Tick

SpecEdit == Init /\ [][EditNext]_vars

(***************************************************************************)
(* Primary images: images are attached to listings, made primary and       *)
(* deleted, listings are deleted, and the process may die between two      *)
(* statements of a handler.                                                *)
(***************************************************************************)
MediaSegs == Segs(MediaListings)
ImageSegs == Segs(MaxImages)
ImageBatches == {<<Jpeg>>, <<Jpeg, Png>>}

PrimaryNext ==
    \/ Create(AdminOnly, ValidBodies, MediaListings)
    \/ PostImages(AdminOnly, MediaSegs, ImageBatches)
    \/ PutPrimary(AdminOnly, MediaSegs, ImageSegs)
    \/ SetPrimaryMark
    \/ DeleteImageOf(AdminOnly, MediaSegs, ImageSegs)
    \/ DeleteImageResume
    \/ Delete(AdminOnly, MediaSegs)
    \/ DeleteApartmentSettle
    \/ Crash

SpecPrimary == Init /\ [][PrimaryNext]_vars

(***************************************************************************)
(* Cascade: images and videos are attached to listings and listings and    *)
(* images are deleted.                                                     *)
(***************************************************************************)
CascadeNext ==
    \/ Create(AdminOnly, ValidBodies, MediaListings)
    \/ PostImages(AdminOnly, MediaSegs, OneImage)
    \/ PostVideo(AdminOnly, MediaSegs, OneVideo)
    \/ DeleteImageOf(AdminOnly, MediaSegs, ImageSegs)
    \/ DeleteImageResume
    \/ Delete(AdminOnly, MediaSegs)
    \/ DeleteApartmentSettle

SpecCascade == Init /\ [][CascadeNext]_vars

(* Requests that name a listing the store does not hold. *)
MissingSegs == Segs(MediaListings + 1)
TitleBodies == {[title |-> Str("Villa")]}

MissingNext ==
    \/ Create(AdminOnly, ValidBodies, MediaListings)
    \/ PostImages(AdminOnly, FirstSeg, FullBatch)
    \/ PostVideo(AdminOnly, FirstSeg, OneVideo)
    \/ Update(AdminOnly, MissingSegs, TitleBodies)
    \/ Delete(AdminOnly, MissingSegs)
    \/ DeleteApartmentSettle
    \/ Tick

SpecMissing == Init /\ [][MissingNext]_vars

(***************************************************************************)
(* The gate: listings, an image and a video are put in the store by the    *)
(* admin; every protected route is then called with each kind of           *)
(* Authorization header that does not carry a valid token, and clients     *)
(* try to log in.                                                          *)
(***************************************************************************)
LoginBodies ==
    {[username |-> Str(u), password |-> Str(p)] :
        u \in {"admin", "ghost", ""}, p \in {"admin123", "wrong", ""}}
    \cup {EmptyBody, [username |-> Str("admin")]}

GateNext ==
    \/ Create(AdminOnly, ValidBodies, AuthListings)
    \/ PostImages(AdminOnly, FirstSeg, OneImage)
    \/ PostVideo(AdminOnly, FirstSeg, OneVideo)
    \/ Statistics(AllHeaders)
    \/ Create(BadHeaders, ValidBodies, AuthListings + 1)
    \/ Update(BadHeaders, FirstSeg, TitleBodies)
    \/ Delete(BadHeaders, FirstSeg)
    \/ PostImages(BadHeaders, FirstSeg, OneImage)
    \/ PostVideo(BadHeaders, FirstSeg, OneVideo)
    \/ DeleteImageOf(BadHeaders, FirstSeg, FirstSeg)
    \/ PutPrimary(BadHeaders, FirstSeg, FirstSeg)
    \/ GetVerify(AllHeaders)
    \/ PostLogin(LoginBodies)

SpecGate == Init /\ [][GateNext]_vars

(***************************************************************************)
(* Properties.  A request is recognised by its method and the shape of its *)
(* path under its mount point.                                             *)
(***************************************************************************)
IsList(r)   == r.mount = "apartments" /\ r.method = "GET" /\ r.path = <<>>
IsCreate(r) == r.mount = "apartments" /\ r.method = "POST" /\ r.path = <<>>
IsUpdate(r) == r.mount = "apartments" /\ r.method = "PUT" /\ Len(r.path) = 1
IsDelete(r) == r.mount = "apartments" /\ r.method = "DELETE" /\ Len(r.path) = 1
IsLogin(r)  == r.mount = "admin" /\ r.method = "POST" /\ r.path = <<Lit("login")>>

\* the ids of the listings the response lists
ListedIds == {res.body.apartments[i].id : i \in 1..Len(res.body.apartments)}

AvailableIds == {row.id : row \in {a \in apartments : a.available = Num(1)}}

\* C1: a list request without an Authorization header is answered with
\* exactly the listings whose availability flag is true, each once; a list
\* request carrying the admin's token is answered with every listing.
C1_ListByAudience ==
    (IsList(req) /\ res.status = 200) =>
        /\ res.body.count = Len(res.body.apartments)
        /\ ~req.authorization.present =>
              /\ ListedIds = AvailableIds
              /\ Len(res.body.apartments) = Cardinality(AvailableIds)
              /\ \A i \in 1..Len(res.body.apartments) :
                    res.body.apartments[i].available = Bool(TRUE)
        /\ req.authorization = GoodHeader =>
              /\ ListedIds = {row.id : row \in apartments}
              /\ Len(res.body.apartments) = Cardinality(apartments)

\* a public list that leaves a reserved listing out and shows an available one
C1_Witness ==
    /\ IsList(req) /\ ~req.authorization.present /\ res.status = 200
    /\ \E a \in apartments : a.available = Num(0)
    /\ Len(res.body.apartments) = 1

\* a required field the body lacks or gives as null
Absent(b, f) == TypeOf(Get(b, f)) \in {"undefined", "null"}

\* C3: a create request with a required field missing is answered 400 and
\* the set of listings is the same before and after it.
C3_MissingFieldRejected ==
    [][ (IsCreate(req') /\ now' = now /\ req'.authorization = GoodHeader
         /\ \E f \in RequiredFields : Absent(req'.body, f))
        => (res'.status = 400 /\ apartments' = apartments) ]_vars

\* a create without its state, refused while the store holds a listing
C3_Witness ==
    /\ IsCreate(req) /\ "state" \notin DOMAIN req.body
    /\ res.status = 400
    /\ apartments # {}

\* C4 as the specification states it: create answers with the validation
\* error only when a required field is absent or null, and a create whose
\* required fields are all present and non-null (0 included) adds exactly
\* one row.
C4_AsStated ==
    [][ (IsCreate(req') /\ now' = now /\ req'.authorization = GoodHeader) =>
          /\ res' = MissingFieldsResponse =>
                \E f \in RequiredFields : Absent(req'.body, f)
          /\ (\A f \in RequiredFields : ~Absent(req'.body, f)) =>
                /\ apartments \subseteq apartments'
                /\ Cardinality(apartments') = Cardinality(apartments) + 1 ]_vars

\* the listings whose id the path segment gives
ListingAt(seg) == {a \in apartments : seg[1] = "num" /\ a.id = seg[2]}

\* the allow-listed fields an update request names
Named(r) == DOMAIN r.body \cap allowedFields

\* C5: an update of an existing listing whose body names no allow-listed
\* field is answered 400 and leaves the row, updated_at included, as it was.
C5_EmptyUpdateRejected ==
    [][ (IsUpdate(req') /\ now' = now /\ req'.authorization = GoodHeader
         /\ ListingAt(req'.path[1]) # {}
         /\ Named(req') = {})
        => (res'.status = 400 /\ apartments' = apartments) ]_vars

\* an update naming only unknown keys, refused at a time later than the
\* row's last change
C5_Witness ==
    /\ IsUpdate(req) /\ DOMAIN req.body # {} /\ Named(req) = {}
    /\ res.status = 400
    /\ \E row \in ListingAt(req.path[1]) : row.updated_at < now

\* C6: a successful update changes, on the listing it names, only the
\* allow-listed fields of its body and updated_at; every other column of
\* that listing, every other listing and every image and video row stay as
\* they were, whatever other keys the body carries.
C6_UpdateFrame ==
    [][ (IsUpdate(req') /\ now' = now /\ res'.status = 200) =>
          /\ \E old \in ListingAt(req'.path[1]) : \E new \in apartments' :
                /\ new.id = old.id
                /\ \A f \in DOMAIN old \ (Named(req') \cup {"updated_at"}) :
                      new[f] = old[f]
                /\ apartments' \ {new} = apartments \ {old}
          /\ UNCHANGED <<apartment_images, apartment_videos, admin_users>> ]_vars

\* an update naming title, id and updated_at has renamed one listing at a
\* later time, beside another listing and attached images and a video
C6_Witness ==
    /\ IsUpdate(req) /\ "id" \in DOMAIN req.body /\ res.status = 200
    /\ \E row \in ListingAt(req.path[1]) :
          /\ row.title = Str("Villa")
          /\ row.description = Str("Two rooms")
          /\ row.created_at < row.updated_at
    /\ \E other \in apartments : other.title = Str("Loft")
    /\ apartment_images # {}
    /\ apartment_videos # {}

PrimariesOf(id) == {im \in ImagesOf(apartment_images, id) : im.is_primary = 1}

\* C7: in every state reached by creating listings, uploading images,
\* setting a primary image, deleting images and deleting listings, no
\* listing has more than one image row marked primary.
C7_OnePrimary ==
    \A id \in {im.apartment_id : im \in apartment_images} :
        Cardinality(PrimariesOf(id)) <= 1

\* a set-primary has completed on a listing with two images, one of which
\* is now primary
C7_Witness ==
    /\ req.method = "PUT" /\ Len(req.path) = 4 /\ res.status = 200
    /\ \E id \in {im.apartment_id : im \in apartment_images} :
          /\ Cardinality(ImagesOf(apartment_images, id)) = 2
          /\ Cardinality(PrimariesOf(id)) = 1

\* C8: every image row and every video row references a listing that
\* exists, and once a listing delete has succeeded no image or video row
\* references the deleted listing.
C8_NoOrphans ==
    /\ \A im \in apartment_images : \E a \in apartments : a.id = im.apartment_id
    /\ \A v \in apartment_videos : \E a \in apartments : a.id = v.apartment_id
    /\ (IsDelete(req) /\ res.status = 200) =>
          /\ \A im \in apartment_images : ~IdIs(im.apartment_id, req.path[1])
          /\ \A v \in apartment_videos : ~IdIs(v.apartment_id, req.path[1])

\* a listing that had an image and a video has been deleted
C8_Witness ==
    /\ IsDelete(req) /\ res.status = 200
    /\ \E c \in calls : c.op = "unlink settled" /\ c.arg.path.dirs[5] = "image"
    /\ \E c \in calls : c.op = "unlink settled" /\ c.arg.path.dirs[5] = "video"
    /\ apartment_images = {} /\ apartment_videos = {}

\* C9: an update or a delete that names a listing id the store does not
\* hold is answered 404, leaves listings, images and videos unchanged and
\* deletes no file and no remote object.
C9_MissingIdNotFound ==
    [][ ((IsUpdate(req') \/ IsDelete(req')) /\ now' = now
         /\ pc.awaiting \subseteq pc'.awaiting
         /\ req'.authorization = GoodHeader
         /\ ListingAt(req'.path[1]) = {})
        => /\ res'.status = 404
           /\ UNCHANGED <<apartments, apartment_images, apartment_videos, cloud>>
           /\ calls' = {} ]_vars

\* a delete of an id that is not there, refused while another listing with
\* its images and video is in the store
C9_Witness ==
    /\ IsDelete(req) /\ res.status = 404
    /\ apartments # {} /\ apartment_images # {} /\ apartment_videos # {}

\* an Authorization header that is absent, has nothing after the scheme
\* word, or carries a token that is malformed, wrongly signed or expired
Unauthenticated(h) ==
    \/ ~h.present
    \/ ~h.hasToken
    \/ h.token.form # "jws"
    \/ h.token.key # JWT_SECRET
    \/ h.token.exp <= now

\* the request is addressed to a protected route of its router
ToProtectedRoute(r) ==
    \E i \in 1..Len(RoutesOf(r.mount)) :
        RoutesOf(r.mount)[i].protected /\ Matches(RoutesOf(r.mount)[i], r)

\* C2 as the specification states it: every request to a protected route
\* (statistics, create, update, delete, image upload, video upload, delete
\* image, set primary, verify) without a valid token is answered 401 and
\* changes no row.
C2_AsStated ==
    [][ (ToProtectedRoute(req') /\ Unauthenticated(req'.authorization))
        => (res'.status = 401 /\ UNCHANGED store) ]_vars

\* either login request carries a non-empty username and password
Credentials(r) ==
    /\ IsLogin(r)
    /\ Truthy(Get(r.body, "username")) /\ Truthy(Get(r.body, "password"))

\* a login naming no administrator
UnknownUser(r) ==
    /\ Credentials(r)
    /\ \A a \in admin_users : Str(a.username) # r.body.username

\* a login naming an administrator with a password that is not theirs
WrongPassword(r) ==
    /\ Credentials(r)
    /\ \E a \in admin_users :
          /\ Str(a.username) = r.body.username
          /\ a.password # HashSync(r.body.password[2])

MaxHours == 25        \* hours the session clock runs

Wait ==
    /\ now < MaxHours
    /\ Ready
    /\ now' = now + 1
    /\ UNCHANGED <<apartments, apartment_images, apartment_videos, admin_users,
                   sqlite_sequence, req, res, cloud, calls, pc, client>>

\* one request to each protected route, carrying header h
ProtectedProbes(h) ==
    {Request("apartments", "GET", <<Lit("statistics")>>, h, EmptyBody, <<>>),
     Request("apartments", "POST", <<>>, h, EmptyBody, <<>>),
     Request("apartments", "PUT", <<Seg(1)>>, h, EmptyBody, <<>>),
     Request("apartments", "DELETE", <<Seg(1)>>, h, EmptyBody, <<>>),
     Request("apartments", "POST", <<Seg(1), Lit("images")>>, h, EmptyBody, <<>>),
     Request("apartments", "POST", <<Seg(1), Lit("videos")>>, h, EmptyBody, <<>>),
     Request("apartments", "DELETE", <<Seg(1), Lit("images"), Seg(1)>>, h, EmptyBody, <<>>),
     Request("apartments", "PUT", <<Seg(1), Lit("images"), Seg(1), Lit("primary")>>,
             h, EmptyBody, <<>>),
     Request("admin", "GET", <<Lit("verify")>>, h, EmptyBody, <<>>)}

\* the client sends the token of the login response it holds
Present ==
    /\ Ready
    /\ IsLogin(req) /\ res.status = 200
    /\ \E r \in ProtectedProbes(Authorization("Bearer", res.body.token)) : Serve(r)

TokenNext ==
    \/ PostLogin(LoginBodies)
    \/ Wait
    \/ Present

SpecToken == Init /\ [][TokenNext]_vars

\* C11 as the specification states it: a response carries a token only if
\* it answers a login whose username exists and whose password matches the
\* stored hash, and a token issued at time t is accepted (not answered 401)
\* by every protected route before t + 24 and answered 401 after t + 24.
C11_AsStated ==
    [][ now' = now =>
          /\ "token" \in DOMAIN res'.body =>
                /\ IsLogin(req')
                /\ \E a \in admin_users :
                      /\ Str(a.username) = req'.body.username
                      /\ a.password = HashSync(req'.body.password[2])
          /\ (ToProtectedRoute(req') /\ req'.authorization.hasToken
              /\ req'.authorization.token.form = "jws"
              /\ req'.authorization.token.key = JWT_SECRET) =>
                LET t == req'.authorization.token.iat IN
                /\ now < t + 24 => res'.status # 401
                /\ now > t + 24 => res'.status = 401 ]_vars

IsStatistics(r) ==
    r.mount = "apartments" /\ r.method = "GET" /\ r.path = <<Lit("statistics")>>

\* C12 as the specification states it: GET /api/apartments/statistics with
\* the admin's token is answered by the statistics operation with the
\* counts of the store: total, available, reserved and featured listings
\* and total images.
C12_AsStated ==
    (IsStatistics(req) /\ req.authorization = GoodHeader) =>
        /\ res.status = 200
        /\ res.body.statistics =
              [totalApartments     |-> Cardinality(apartments),
               availableApartments |-> Cardinality({a \in apartments : a.available = Num(1)}),
               reservedApartments  |-> Cardinality({a \in apartments : a.available = Num(0)}),
               totalImages         |-> Cardinality(apartment_images),
               featuredApartments  |-> Cardinality({a \in apartments : a.featured = Num(1)})]

(***************************************************************************)
(* Reading: listings are created from several bodies, an image and a video *)
(* are attached to the first, and listings are fetched one by one.         *)
(***************************************************************************)
FetchBodies ==
    {ValidBody,
     Without(ValidBody, "description"),
     With(With(ValidBody, "available", Bool(FALSE)), "featured", Bool(TRUE))}

FetchNext ==
    \/ Create(AdminOnly, FetchBodies, MediaListings)
    \/ PostImages(AdminOnly, FirstSeg, OneImage)
    \/ PostVideo(AdminOnly, FirstSeg, OneVideo)
    \/ GetById(ListHeaders, MissingSegs)

SpecFetch == Init /\ [][FetchNext]_vars

(***************************************************************************)
(* Image order: images are attached to the first listing in batches, one   *)
(* of them is made primary, and the listings are fetched and listed.       *)
(***************************************************************************)
OrderNext ==
    \/ Create(AdminOnly, ValidBodies, MediaListings)
    \/ PostImages(AdminOnly, FirstSeg, ImageBatches)
    \/ PutPrimary(AdminOnly, FirstSeg, ImageSegs)
    \/ SetPrimaryMark
    \/ GetById(ListHeaders, MissingSegs)
    \/ List(ListHeaders)

SpecOrder == Init /\ [][OrderNext]_vars

IsGetById(r) ==
    r.mount = "apartments" /\ r.method = "GET" /\ Len(r.path) = 1 /\ r.path[1][1] = "num"

PrimaryFirst(s) ==
    \A i, j \in 1..Len(s) : i < j =>
        /\ s[j].is_primary = 1 => s[i].is_primary = 1
        /\ s[i].is_primary = s[j].is_primary => s[i].display_order <= s[j].display_order

\* C14: in every list response and every get-by-id response the images of
\* each listing come with the primary image, if there is one, first and
\* the other images by ascending display order.
C14_ImagesOrdered ==
    /\ (IsList(req) /\ res.status = 200) =>
          \A i \in 1..Len(res.body.apartments) : PrimaryFirst(res.body.apartments[i].images)
    /\ (IsGetById(req) /\ res.status = 200) => PrimaryFirst(res.body.apartment.images)

\* a fetch shows the primary image ahead of an image of lower display order
C14_Witness ==
    /\ IsGetById(req) /\ res.status = 200
    /\ Len(res.body.apartment.images) = 2
    /\ res.body.apartment.images[1].is_primary = 1
    /\ res.body.apartment.images[1].display_order > res.body.apartment.images[2].display_order

(***************************************************************************)
(* Ranges: listings are created and updated with numbers of either sign.   *)
(***************************************************************************)
RangeBodies == {ValidBody, With(ValidBody, "bedrooms", Num(0 - 1))}

RangeUpdates ==
    {[bedrooms |-> Num(3)], [bedrooms |-> Num(0)],
     [max_guests |-> Num(0 - 1)], [price_per_night |-> Num(0 - 1)]}

RangeNext ==
    \/ Create(AdminOnly, RangeBodies, MediaListings)
    \/ Update(AdminOnly, MediaSegs, RangeUpdates)
    \/ Tick

SpecRange == Init /\ [][RangeNext]_vars

\* C15 as the specification states it: in every state reached by creates
\* and updates from the empty store, every listing has bedrooms,
\* bathrooms, max_guests and price_per_night at or above 0.
C15_AsStated ==
    \A a \in apartments : \A f \in NumericFields : a[f][2] >= 0

(***************************************************************************)
(* Startup: the server is started on a new database file and restarted,    *)
(* each time with the admin credentials its environment names; clients log *)
(* in and verify their tokens in between.                                  *)
(***************************************************************************)
\* a database file on which initializeDatabase has not run yet
InitBlank ==
    /\ apartments = {}
    /\ apartment_images = {}
    /\ apartment_videos = {}
    /\ admin_users = {}
    /\ sqlite_sequence = [apartments |-> 0, apartment_images |-> 0,
                          apartment_videos |-> 0, admin_users |-> 0]
    /\ now = 0
    /\ req = NoRequest
    /\ res = Response(0, ErrorBody("", "none"))
    /\ cloud = [objects |-> {}, imageObjects |-> 0, videoObjects |-> 0]
    /\ calls = {}
    /\ pc = Idle
    /\ homePage = HomePageState(<<>>, <<>>, DefaultFilters)
    /\ carousel = Mounted(<<>>)

\* a startup that provisions whether or not an admin exists
NeedsAdminAlways(admins) == TRUE

\* !existingAdmin, of SELECT * FROM admin_users LIMIT 1
NeedsAdmin(admins) == admins = {}

\* process.env.ADMIN_USERNAME || 'admin', process.env.ADMIN_PASSWORD || 'admin123'
EnvUsernames == {"admin", "root"}
EnvPasswords == {"admin123", "wrong"}

\* initializeDatabase: CREATE TABLE IF NOT EXISTS changes nothing on an
\* existing file; createDefaultAdmin inserts unless it finds an admin (an
\* INSERT of a username already there fails on UNIQUE and is caught)
Startup ==
    \E username \in EnvUsernames, password \in EnvPasswords :
       /\ IF NeedsAdmin(admin_users) /\ \A a \in admin_users : a.username # username
          THEN /\ admin_users' = admin_users \cup
                    {[id |-> sqlite_sequence.admin_users + 1, username |-> username,
                      password |-> HashSync(password)]}
               /\ sqlite_sequence' = [sqlite_sequence EXCEPT !.admin_users = @ + 1]
          ELSE UNCHANGED <<admin_users, sqlite_sequence>>
       /\ pc' = Idle
       /\ UNCHANGED <<apartments, apartment_images, apartment_videos, now, req, res,
                      cloud, calls, client>>

StartupNext ==
    \/ Startup
    \/ PostLogin(LoginBodies)
    \/ GetVerify(AllHeaders)
    \/ Tick

SpecStartup == InitBlank /\ [][StartupNext]_vars

\* a step that serves no request and leaves the clock alone: a startup
StartupStep == req' = req /\ res' = res /\ now' = now

\* C16: after a startup exactly one admin credential exists, and a startup
\* that finds a credential adds none and changes none.
C16_ProvisionOnce ==
    [][ StartupStep =>
          /\ Cardinality(admin_users') = 1
          /\ admin_users # {} => admin_users' = admin_users ]_vars

\* after a startup provisioned the environment's credential, a later
\* startup with the default environment added nothing: the default
\* credentials are refused
C16_Witness ==
    /\ Cardinality(admin_users) = 1
    /\ \E a \in admin_users : a.username = "root"
    /\ IsLogin(req) /\ res.status = 401
    /\ req.body = [username |-> Str("admin"), password |-> Str("admin123")]

IsDeleteImage(r) ==
    /\ r.mount = "apartments" /\ r.method = "DELETE"
    /\ Len(r.path) = 3 /\ r.path[2] = Lit("images")

\* the remote deletion of the last request did not remove an object
RemoteFailed ==
    \E c \in calls : c.op = "destroy settled" /\ c.arg.result # "ok"

\* C17: when the remote deletion of an image delete fails, the image row
\* is removed all the same and the request is answered with success.
C17_RowGoesAnyway ==
    (IsDeleteImage(req) /\ RemoteFailed) =>
        /\ res.status = 200
        /\ res.body.success
        /\ \A im \in apartment_images : ~IdIs(im.id, req.path[3])

\* an image delete whose remote call rejected has answered; the object is
\* still on the media host
C17_Witness ==
    /\ IsDeleteImage(req) /\ res.status = 200
    /\ \E c \in calls : c.op = "destroy settled" /\ c.arg.result = "error"
    /\ cloud.objects # {}
    /\ apartment_images = {}

\* no row of or under the listing the request names is left
ListingGone(r) ==
    /\ ListingAt(r.path[1]) = {}
    /\ \A im \in apartment_images : ~IdIs(im.apartment_id, r.path[1])
    /\ \A v \in apartment_videos : ~IdIs(v.apartment_id, r.path[1])

\* C18: when a listing delete attempts its media deletions the listing row
\* and its image and video rows are already removed, and once the
\* deletions have settled, each as a success or a failure, the rows are
\* still removed and the request is answered with success.
C18_RemovalFirst ==
    IsDelete(req) =>
        /\ (\E c \in calls : c.op = "unlink") => ListingGone(req)
        /\ (\E c \in calls : c.op = "unlink settled") =>
              /\ ListingGone(req)
              /\ res.status = 200
              /\ res.body.success

\* a listing delete has answered after one of its media deletions failed
\* and another succeeded
C18_Witness ==
    /\ IsDelete(req) /\ res.status = 200
    /\ \E c \in calls : c.op = "unlink settled" /\ c.arg.result = "ENOENT"
    /\ \E c \in calls : c.op = "unlink settled" /\ c.arg.result = "ok"
    /\ ListingGone(req)

\* the URLs of the images and videos of the listings the segment names
MediaUrlsAt(seg) ==
    {im.image_url : im \in {x \in apartment_images : IdIs(x.apartment_id, seg)}}
    \cup {v.video_url : v \in {x \in apartment_videos : IdIs(x.apartment_id, seg)}}

\* C19 as the specification states it: a listing delete attempts, for each
\* image and each video the listing had, a removal of that media object on
\* the external media host.
C19_AsStated ==
    [][ (IsDelete(req') /\ now' = now /\ pc.awaiting \subseteq pc'.awaiting
         /\ req'.authorization = GoodHeader /\ ListingAt(req'.path[1]) # {})
        => \A url \in MediaUrlsAt(req'.path[1]) :
              \E c \in calls' : c.op = "destroy" /\ c.arg.name = url.stem ]_vars

\* C20 as the specification states it: the identifier an image delete
\* sends to the media host is the identifier under which the image's
\* object was stored by the upload: folder khael-apartments/images plus the
\* file name without its extension.
C20_AsStated ==
    \A c \in calls : (c.op = "destroy" /\ IsDeleteImage(req)) =>
        \A im \in apartment_images : IdIs(im.id, req.path[3]) =>
            /\ c.arg = PublicId(imageStorage.folder, im.image_url.stem)
            /\ c.arg \in cloud.objects

(***************************************************************************)
(* Uploads by type: files whose declared MIME type and whose content agree *)
(* or disagree are sent to the image and the video endpoint.               *)
(***************************************************************************)
Pdf             == [mimetype |-> "application/pdf", format |-> "pdf"]
\* a JPEG whose multipart header declares video/mp4, and the converse
JpegAsVideo     == [mimetype |-> "video/mp4", format |-> "jpg"]
Mp4AsImage      == [mimetype |-> "image/jpeg", format |-> "mp4"]

TypedImageBatches == {<<Jpeg>>, <<Mp4>>, <<Pdf>>, <<JpegAsVideo>>, <<Jpeg, Pdf>>}
TypedVideoBatches == {<<Mp4>>, <<Jpeg>>, <<Pdf>>, <<Mp4AsImage>>}

TypedNext ==
    \/ Create(AdminOnly, ValidBodies, MediaListings)
    \/ PostImages(AdminOnly, MissingSegs, TypedImageBatches)
    \/ PostVideo(AdminOnly, MissingSegs, TypedVideoBatches)
    \/ Tick

SpecTyped == Init /\ [][TypedNext]_vars

IsPostImages(r) ==
    /\ r.mount = "apartments" /\ r.method = "POST"
    /\ Len(r.path) = 2 /\ r.path[2] = Lit("images")

IsPostVideo(r) ==
    /\ r.mount = "apartments" /\ r.method = "POST"
    /\ Len(r.path) = 2 /\ r.path[2] = Lit("videos")

\* the MIME types the request's endpoint is said to allow
OwnAllowList(r) ==
    IF IsPostImages(r) THEN {"image/jpeg", "image/jpg", "image/png", "image/webp"}
    ELSE {"video/mp4", "video/webm", "video/ogg"}

\* C21 as the specification states it: an upload request carrying a file
\* whose MIME type is outside the allow-list of its own endpoint (image:
\* jpeg, png, webp; video: mp4, webm, ogg) is rejected and writes no image
\* row and no video row.
C21_AsStated ==
    [][ ((IsPostImages(req') \/ IsPostVideo(req')) /\ now' = now
         /\ \E i \in 1..Len(req'.files) : req'.files[i].mimetype \notin OwnAllowList(req'))
        => /\ res'.status >= 400
           /\ UNCHANGED <<apartment_images, apartment_videos>> ]_vars

IsSetPrimary(r) ==
    /\ r.mount = "apartments" /\ r.method = "PUT"
    /\ Len(r.path) = 4 /\ r.path[2] = Lit("images") /\ r.path[4] = Lit("primary")

\* the images of the listing the first path segment names
ImagesAt(seg) == {im \in apartment_images : IdIs(im.apartment_id, seg)}

\* C22: while a set-primary is between its two writes, and when the
\* process has died there, the listing has no primary image (never two);
\* once the set-primary has answered, the target is the one primary image
\* of the listing.
C22_ClearThenSet ==
    /\ (IsSetPrimary(req) /\ res.status = 0) =>
          \A im \in ImagesAt(req.path[1]) : im.is_primary = 0
    /\ (IsSetPrimary(req) /\ res.status = 200) =>
          /\ \E im \in ImagesAt(req.path[1]) : IdIs(im.id, req.path[3])
          /\ \A im \in ImagesAt(req.path[1]) :
                im.is_primary = (IF IdIs(im.id, req.path[3]) THEN 1 ELSE 0)

\* the process died between the two writes of a set-primary on a listing
\* with two images: the handler is gone and no image is primary
C22_Witness ==
    /\ IsSetPrimary(req) /\ res.status = 0
    /\ pc = Idle
    /\ Cardinality(ImagesAt(req.path[1])) = 2
    /\ \A im \in ImagesAt(req.path[1]) : im.is_primary = 0

(***************************************************************************)
(* Audiences: available and reserved listings are created, the first is    *)
(* marked reserved or available again, and clients sending every kind of   *)
(* Authorization header list them.                                         *)
(***************************************************************************)
BasicHeader     == Authorization("Basic", Token("text", "", 0, "", 0, 0))
LowerCaseHeader == Authorization("bearer", Sign(DefaultAdmin, JWT_SECRET, 0))
AudienceHeaders == AllHeaders \cup {BasicHeader, LowerCaseHeader}
AudienceBodies  == {ValidBody, ReservedBody}

AudienceNext ==
    \/ Create(AdminOnly, AudienceBodies, CatalogListings)
    \/ Update(AdminOnly, FirstSeg, AvailabilityBodies)
    \/ List(AudienceHeaders)

SpecAudience == Init /\ [][AudienceNext]_vars

\* the header value begins with the word Bearer
StartsWithBearer(h) == h.present /\ h.scheme = "Bearer"

\* C23: a list response holds every listing, reserved ones included, when
\* the request's Authorization header starts with Bearer, whatever follows
\* the word (a valid, forged, malformed or expired token, or nothing), and
\* holds exactly the available listings otherwise.
C23_BearerPrefixDecides ==
    (IsList(req) /\ res.status = 200) =>
        /\ Len(res.body.apartments) = Cardinality(ListedIds)
        /\ ListedIds = IF StartsWithBearer(req.authorization)
                       THEN {row.id : row \in apartments}
                       ELSE AvailableIds

\* a list request with a forged token is shown a reserved listing
C23_Witness ==
    /\ IsList(req) /\ res.status = 200
    /\ req.authorization = ForgedHeader
    /\ \E i \in 1..Len(res.body.apartments) :
          res.body.apartments[i].available = Bool(FALSE)

(***************************************************************************)
(* Concurrent set-primary requests: several requests naming images of the  *)
(* first listing are received before any of them is served (a request can  *)
(* arrive at any moment), and the event loop serves them in any order;     *)
(* readers fetch the listing meanwhile.                                     *)
(***************************************************************************)
MaxWaiting == 2       \* requests received and not yet answered at one time

\* a set-primary request for an image of the listing arrives
ReceivePrimary(H, S, I) ==
    \E h \in H, s \in S, i \in I :
       /\ ImageLookup(s, i) # {}
       /\ Cardinality(pc.awaiting) < MaxWaiting
       /\ pc' = [pc EXCEPT !.awaiting = @ \cup
                    {Open(Request("apartments", "PUT",
                                  <<s, Lit("images"), i, Lit("primary")>>,
                                  h, EmptyBody, <<>>))}]
       /\ UNCHANGED <<apartments, apartment_images, apartment_videos, admin_users,
                      sqlite_sequence, now, req, res, cloud, calls, client>>

\* the event loop hands one of the received requests to the router
RunReceived ==
    /\ Ready
    /\ \E w \in {x \in pc.awaiting : "open" \in DOMAIN x} : Serve(w.req)

RaceNext ==
    \/ Create(AdminOnly, ValidBodies, MediaListings)
    \/ PostImages(AdminOnly, FirstSeg, ImageBatches)
    \/ ReceivePrimary(AdminOnly, FirstSeg, ImageSegs)
    \/ RunReceived
    \/ SetPrimaryMark
    \/ GetById(ListHeaders, FirstSeg)

SpecRace == Init /\ [][RaceNext]_vars

\* the set-primary requests received and not yet answered
WaitingPrimaries == {w.req : w \in {x \in pc.awaiting : "open" \in DOMAIN x}}

\* C24: with several set-primary requests for images of one listing
\* received at once and served in any order, a handler that has made its
\* first write makes its second before any other request is served or
\* writes to the store; no listing ever has two primary images; and when a
\* set-primary answers, its target is the listing's only primary image,
\* whichever request was primary before (the last to run wins).
C24_PairsDoNotInterleave ==
    [][ /\ pc.running # <<>> =>
              \/ req' = pc.running[1] /\ res'.status = 200 /\ pc'.running = <<>>
              \/ req' = req /\ res' = res /\ UNCHANGED store
        /\ \A im1, im2 \in apartment_images' :
              (im1.apartment_id = im2.apartment_id /\ im1.is_primary = 1
               /\ im2.is_primary = 1) => im1 = im2
        /\ (req'.method = "PUT" /\ Len(req'.path) = 4 /\ res'.status = 200) =>
              \A im \in apartment_images' : IdIs(im.apartment_id, req'.path[1]) =>
                 im.is_primary = (IF IdIs(im.id, req'.path[3]) THEN 1 ELSE 0) ]_vars

\* of two set-primary requests received together for the two images of a
\* listing, the one for the second image has been answered while the other
\* still waits, and the second image is the only primary one
C24_Witness ==
    /\ req.method = "PUT" /\ Len(req.path) = 4 /\ res.status = 200
    /\ req.path[3] = Seg(2)
    /\ \E r \in WaitingPrimaries : r.path[1] = req.path[1] /\ r.path[3] = Seg(1)
    /\ \E im \in apartment_images : im.id = 2 /\ im.is_primary = 1
    /\ \E im \in apartment_images : im.id = 1 /\ im.is_primary = 0

\* the display orders of the images of the listing the segment names
OrdersAt(images, seg) == {im.display_order : im \in {x \in images : IdIs(x.apartment_id, seg)}}

\* C25 as the specification states it: the files of an image upload get
\* the display orders that follow the largest one among the listing's
\* images (from 0 when it has none), one after the other, so that the
\* display orders of a listing's images are pairwise distinct.
C25_AsStated ==
    [][ (IsPostImages(req') /\ now' = now /\ res'.status = 200) =>
          LET old == OrdersAt(apartment_images, req'.path[1])
              first == IF old = {} THEN 0
                       ELSE 1 + CHOOSE m \in old : \A o \in old : o <= m
              added == apartment_images' \ apartment_images
          IN /\ {im.display_order : im \in added} =
                   {first + i : i \in 0..(Len(req'.files) - 1)}
             /\ \A im1, im2 \in apartment_images' :
                   (im1.apartment_id = im2.apartment_id
                    /\ im1.display_order = im2.display_order) => im1 = im2 ]_vars

\* C26 as the specification states it: an image or video upload that names
\* a listing id the store does not hold is answered 404, writes no image
\* row and no video row, and stores no object on the media host.
C26_AsStated ==
    [][ ((IsPostImages(req') \/ IsPostVideo(req')) /\ now' = now
         /\ req'.authorization = GoodHeader
         /\ ListingAt(req'.path[1]) = {})
        => /\ res'.status = 404
           /\ UNCHANGED <<apartment_images, apartment_videos>>
           /\ cloud'.objects = cloud.objects ]_vars

(***************************************************************************)
(* Two listings with images: images are made primary and deleted through   *)
(* paths that name their own listing or the other one.                     *)
(***************************************************************************)
FrameNext ==
    \/ Create(AdminOnly, ValidBodies, EditListings)
    \/ PostImages(AdminOnly, EditSegs, OneImage)
    \/ PutPrimary(AdminOnly, EditSegs, ImageSegs)
    \/ SetPrimaryMark
    \/ DeleteImageOf(AdminOnly, EditSegs, ImageSegs)
    \/ DeleteImageResume

SpecFrame == Init /\ [][FrameNext]_vars

\* the image rows outside the listing the segment names
ImagesElsewhere(images, seg) == {im \in images : ~IdIs(im.apartment_id, seg)}

\* the request's image id is the id of an image of the request's listing
NamesOwnImage(r) ==
    \E im \in apartment_images : IdIs(im.id, r.path[3]) /\ IdIs(im.apartment_id, r.path[1])

\* C27: a set-primary or delete-image request whose image id is not an
\* image of the listing in its path is answered 404, changes no image row
\* and calls no remote deletion; and no step of a set-primary or a
\* delete-image changes or removes an image row of another listing.
C27_WithinListing ==
    [][ ((IsSetPrimary(req') \/ IsDeleteImage(req')) /\ now' = now) =>
          /\ ImagesElsewhere(apartment_images', req'.path[1])
                = ImagesElsewhere(apartment_images, req'.path[1])
          /\ (pc.running = <<>> /\ pc.awaiting \subseteq pc'.awaiting
              /\ ~NamesOwnImage(req')) =>
                /\ res'.status = 404
                /\ apartment_images' = apartment_images
                /\ calls' = {}
                /\ pc' = pc ]_vars

\* a set-primary through the second listing's path for the image of the
\* first listing has been refused, and that image is still primary where
\* it belongs
C27_Witness ==
    /\ IsSetPrimary(req) /\ res.status = 404
    /\ req.path[1] = Seg(2)
    /\ \E im \in apartment_images :
          IdIs(im.id, req.path[3]) /\ im.apartment_id = 1 /\ im.is_primary = 1
    /\ \E im \in apartment_images : im.apartment_id = 2

(***************************************************************************)
(* Reserved listings: available and reserved listings are created, the     *)
(* first is marked reserved or available again, and the public and the     *)
(* admin list the listings and fetch them by id.                           *)
(***************************************************************************)
ReservedNext ==
    \/ Create(AdminOnly, AudienceBodies, CatalogListings)
    \/ Update(AdminOnly, FirstSeg, AvailabilityBodies)
    \/ List(ListHeaders)
    \/ GetById(ListHeaders, CatalogSegs)

SpecReserved == Init /\ [][ReservedNext]_vars

\* C28: a get-by-id request for the id of a listing in the store, with or
\* without an Authorization header, is answered 200 with that listing and
\* every one of its fields, whether its availability flag is true or false
\* (the public list shows only listings whose flag is true).
C28_FetchIgnoresAvailability ==
    /\ (IsGetById(req) /\ ListingAt(req.path[1]) # {}) =>
          /\ res.status = 200
          /\ \A row \in ListingAt(req.path[1]) :
                /\ \A f \in DOMAIN row \ {"available", "featured", "amenities"} :
                      res.body.apartment[f] = row[f]
                /\ res.body.apartment.available = Bool(row.available = Num(1))
                /\ res.body.apartment.featured = Bool(row.featured = Num(1))
                /\ res.body.apartment.amenities = Arr(row.amenities[2])
    /\ (IsList(req) /\ ~req.authorization.present /\ res.status = 200) =>
          \A i \in 1..Len(res.body.apartments) :
              res.body.apartments[i].available = Bool(TRUE)

\* a request without an Authorization header has fetched a reserved
\* listing by its id
C28_Witness ==
    /\ IsGetById(req) /\ ~req.authorization.present
    /\ res.status = 200
    /\ res.body.apartment.available = Bool(FALSE)
    /\ res.body.apartment.title = Str("Loft")
    /\ res.body.apartment.amenities = Arr(<<"wifi">>)

(***************************************************************************)
(* The HomePage of the frontend: it fetches the list, sorts it, and shows  *)
(* the listings that pass the visitor's price and bedroom filters.         *)
(***************************************************************************)
\* the comparator of the sort: featured first, then newest first
ByFeaturedThenNewest(a, b) ==
    IF Truthy(a.featured) /\ ~Truthy(b.featured) THEN 0 - 1
    ELSE IF ~Truthy(a.featured) /\ Truthy(b.featured) THEN 1
    ELSE b.created_at - a.created_at

\* Array.prototype.sort with that comparator (the sort is stable)
SortFetched(s) ==
    LET n == Len(s)
        p == CHOOSE q \in Perms(1..n) : \A i, j \in 1..n : i < j =>
                \/ ByFeaturedThenNewest(s[q[i]], s[q[j]]) < 0
                \/ ByFeaturedThenNewest(s[q[i]], s[q[j]]) = 0 /\ q[i] < q[j]
    IN [i \in 1..n |-> s[p[i]]]

\* the values of the <option> elements of the bedrooms <select>
BedroomOptions == {"all", "1", "2", "3", "4"}

NaN == <<"number", "NaN">>

\* parseInt of an option value
ParseInt(s) ==
    CASE s = "1" -> Num(1)
      [] s = "2" -> Num(2)
      [] s = "3" -> Num(3)
      [] s = "4" -> Num(4)
      [] OTHER   -> NaN

\* the two filter() calls of applyFilters
applyFilters(apts, filters) ==
    LET InRange(apt) == /\ apt.price_per_night[2] >= filters.minPrice
                        /\ apt.price_per_night[2] <= filters.maxPrice
        SameCount(apt) == apt.bedrooms = ParseInt(filters.bedrooms)
        byPrice == SelectSeq(apts, InRange)
    IN IF filters.bedrooms # "all" THEN SelectSeq(byPrice, SameCount) ELSE byPrice

\* fetchApartments after its await: the response of getAll() is sorted and
\* kept, and the effect on [filters, apartments] applies the filters
fetchApartments ==
    /\ IsList(req) /\ res.status = 200
    /\ LET sorted == SortFetched(res.body.apartments)
       IN homePage' = HomePageState(sorted, applyFilters(sorted, homePage.filters),
                                    homePage.filters)
    /\ UNCHANGED <<apartments, apartment_images, apartment_videos, admin_users,
                   sqlite_sequence, now, req, res, cloud, calls, pc, carousel>>

\* setFilters(prev => ({...prev, [name]: value})), then the effect
handleFilterChange(name, value) ==
    LET filters == [homePage.filters EXCEPT ![name] = value]
    IN /\ homePage.apartments # <<>>
       /\ homePage' = HomePageState(homePage.apartments,
                                    applyFilters(homePage.apartments, filters), filters)
       /\ UNCHANGED <<apartments, apartment_images, apartment_videos, admin_users,
                      sqlite_sequence, now, req, res, cloud, calls, pc, carousel>>

\* the Reset Filters button
resetFilters ==
    /\ homePage.apartments # <<>>
    /\ homePage' = HomePageState(homePage.apartments,
                                 applyFilters(homePage.apartments, DefaultFilters),
                                 DefaultFilters)
    /\ UNCHANGED <<apartments, apartment_images, apartment_videos, admin_users,
                   sqlite_sequence, now, req, res, cloud, calls, pc, carousel>>

HomeListings == 2     \* listings ever created in the home page specification

\* positions of the price slider (min 0, max 200000, step 5000)
PriceStops == {15000, 20000, 200000}

MovePriceSlider == \E v \in PriceStops : handleFilterChange("maxPrice", v)
SelectBedrooms  == \E o \in BedroomOptions : handleFilterChange("bedrooms", o)

FiveBedrooms == With(With(ValidBody, "bedrooms", Num(5)), "featured", Bool(TRUE))
FourBedrooms == With(With(ValidBody, "bedrooms", Num(4)), "price_per_night", Num(250000))
HomeBodies == {ValidBody, FiveBedrooms, FourBedrooms}
PublicOnly == {NoHeader}

HomeNext ==
    \/ Create(AdminOnly, HomeBodies, HomeListings)
    \/ List(PublicOnly)
    \/ fetchApartments
    \/ MovePriceSlider
    \/ SelectBedrooms
    \/ resetFilters

SpecHome == Init /\ [][HomeNext]_vars

\* what the label of a bedrooms option says it matches
LabelMatches(option, bedrooms) ==
    CASE option = "all" -> TRUE
      [] option = "1"   -> bedrooms = 1
      [] option = "2"   -> bedrooms = 2
      [] option = "3"   -> bedrooms = 3
      [] option = "4"   -> bedrooms >= 4
      [] OTHER          -> FALSE

\* C29 as the specification states it: the filtered grid holds, in the
\* fetched order, exactly the fetched listings whose price lies in
\* [minPrice, maxPrice] and whose bedroom count matches the selected
\* option, where '4+ Bedrooms' matches 4 or more and 'All Bedrooms' matches
\* every listing.
C29_AsStated ==
    LET Shown(apt) ==
          /\ apt.price_per_night[2] >= homePage.filters.minPrice
          /\ apt.price_per_night[2] <= homePage.filters.maxPrice
          /\ LabelMatches(homePage.filters.bedrooms, apt.bedrooms[2])
    IN homePage.filteredApartments = SelectSeq(homePage.apartments, Shown)

(***************************************************************************)
(* The ImageCarousel of the frontend: it is shown with the images of a     *)
(* listing and the visitor steps through them.                             *)
(***************************************************************************)
MaxSlides == 4        \* images of a listing shown in the carousel

\* an updater that steps past the last image
NextIndexUnwrapped(images, prevIndex) == prevIndex + 1

\* prevIndex === images.length - 1 ? 0 : prevIndex + 1
NextIndex(images, prevIndex) ==
    IF prevIndex = Len(images) - 1 THEN 0 ELSE prevIndex + 1

\* prevIndex === 0 ? images.length - 1 : prevIndex - 1
PreviousIndex(images, prevIndex) ==
    IF prevIndex = 0 THEN Len(images) - 1 ELSE prevIndex - 1

\* the image lists a details page can hand to the carousel: the rows of up
\* to MaxSlides images in any order
SlideLists ==
    {[i \in 1..Len(ids) |-> [id |-> ids[i], image_url |-> Url(imageStorage, ids[i], "jpg")]]
        : ids \in UNION {Perms(S) : S \in SUBSET (1..MaxSlides)}}

\* ApartmentDetails renders <ImageCarousel images={apartment.images} />
ShowImages ==
    /\ \E images \in SlideLists : carousel' = Mounted(images)
    /\ UNCHANGED <<apartments, apartment_images, apartment_videos, admin_users,
                   sqlite_sequence, now, req, res, cloud, calls, pc, homePage>>

\* the arrows and the thumbnails are rendered when images.length > 1
HasControls == Len(carousel.images) > 1

goToPrevious ==
    /\ HasControls
    /\ carousel' = [carousel EXCEPT
                       !.currentIndex = PreviousIndex(carousel.images, @)]
    /\ UNCHANGED <<apartments, apartment_images, apartment_videos, admin_users,
                   sqlite_sequence, now, req, res, cloud, calls, pc, homePage>>

goToNext ==
    /\ HasControls
    /\ carousel' = [carousel EXCEPT !.currentIndex = NextIndex(carousel.images, @)]
    /\ UNCHANGED <<apartments, apartment_images, apartment_videos, admin_users,
                   sqlite_sequence, now, req, res, cloud, calls, pc, homePage>>

\* a click on the thumbnail of images[index]
goToSlide ==
    /\ HasControls
    /\ \E index \in 0..(Len(carousel.images) - 1) :
          carousel' = [carousel EXCEPT !.currentIndex = index]
    /\ UNCHANGED <<apartments, apartment_images, apartment_videos, admin_users,
                   sqlite_sequence, now, req, res, cloud, calls, pc, homePage>>

CarouselNext ==
    \/ ShowImages
    \/ goToPrevious
    \/ goToNext
    \/ goToSlide

SpecCarousel == Init /\ [][CarouselNext]_vars

\* C30: with a non-empty image list of length n, whatever next, previous
\* and go-to-slide actions were taken, the current index is within 0..n-1;
\* from it, next at the last index gives 0 and previous at 0 gives n-1, and
\* next then previous, and previous then next, give the index back.
C30_IndexInRange ==
    LET images == carousel.images
        n == Len(images)
        i == carousel.currentIndex
    IN n > 0 =>
         /\ i \in 0..(n - 1)
         /\ NextIndex(images, i) \in 0..(n - 1)
         /\ PreviousIndex(images, i) \in 0..(n - 1)
         /\ i = n - 1 => NextIndex(images, i) = 0
         /\ i = 0 => PreviousIndex(images, i) = n - 1
         /\ PreviousIndex(images, NextIndex(images, i)) = i
         /\ NextIndex(images, PreviousIndex(images, i)) = i

\* the carousel of three images stands on the last one
C30_Witness ==
    /\ Len(carousel.images) = 3
    /\ carousel.currentIndex = 2

====
